---- MODULE Spec2Model ----
(***************************************************************************)
(* GtuberManifestGenerator (gtuber-manifest-generator.c): the generator    *)
(* object (media-info reference, filter registration, dispose/finalize),   *)
(* the grouping of adaptive streams into DASH adaptation sets, the         *)
(* emission of the MPD text and the write of that text to a file.          *)
(***************************************************************************)
EXTENDS Integers, Sequences, FiniteSets, TLC

(* ------------------------------------------------------------------ *)
(* Bounds of the model                                                  *)
(* ------------------------------------------------------------------ *)
MaxStreams == 3      \* longest adaptive-stream list drawn for a media info
MaxRegs == 2         \* accepted set_filter_func calls in one run
MaxDispose == 1      \* runs of g_object_run_dispose before the last unref
MaxSets == 3         \* set_media_info calls in one run
MaxIndent == 4       \* widest indent set
MaxDuration == 3     \* longest of the short durations drawn
MaxDim == 6          \* largest of the small widths and heights drawn
MaxGens == 1         \* generations (to_data / to_file calls) in one run

(* ------------------------------------------------------------------ *)
(* Values                                                               *)
(* ------------------------------------------------------------------ *)
NULL == 0

\* The NULL function pointer (no filter, no destroy notifier)
NOFUNC == "NULL"

\* A C string is a sequence of one-character strings; the NULL pointer is
\* a one-element sequence that no character of a codec name equals.
NULLSTR == <<"NULL">>

MIME_UNKNOWN == "unknown"
VIDEO_MP4 == "video/mp4"
VIDEO_WEBM == "video/webm"
AUDIO_MP4 == "audio/mp4"
AUDIO_WEBM == "audio/webm"

DASH_CODEC_UNKNOWN == "DASH_CODEC_UNKNOWN"
DASH_CODEC_AVC == "DASH_CODEC_AVC"
DASH_CODEC_HEVC == "DASH_CODEC_HEVC"
DASH_CODEC_VP9 == "DASH_CODEC_VP9"
DASH_CODEC_AV1 == "DASH_CODEC_AV1"
DASH_CODEC_MP4A == "DASH_CODEC_MP4A"
DASH_CODEC_OPUS == "DASH_CODEC_OPUS"

\* gchar strings used as codec names by the streams of the model
C_avc1 == <<"a", "v", "c", "1">>
C_vp9 == <<"v", "p", "9">>
C_vp8 == <<"v", "p", "8">>
C_hev1 == <<"h", "e", "v", "1">>
C_av01 == <<"a", "v", "0", "1">>
C_av1 == <<"a", "v", "1">>
C_mp4a == <<"m", "p", "4", "a">>
C_opus == <<"o", "p", "u", "s">>
C_AVC == <<"A", "V", "C">>
C_empty == <<>>

\* g_str_has_prefix (str, prefix)
g_str_has_prefix(str, prefix) ==
    /\ Len(str) >= Len(prefix)
    /\ \A i \in 1..Len(prefix) : str[i] = prefix[i]

\* the characters of a C string as one TLA+ string
RECURSIVE CStr(_)
CStr(s) == IF s = <<>> THEN "" ELSE s[1] \o CStr(Tail(s))

\* A guint is kept as the 32-bit two's complement integer of the same bits:
\* the values up to 2^31 - 1 as themselves, a value u from 2^31 on as
\* u - 2^32. G_MAXUINT is 4294967295.
G_MAXUINT == -1

\* a < b of two guint
ULess(a, b) == IF (a >= 0) = (b >= 0) THEN a < b ELSE a >= 0

\* a / b and a % b of two guint, b # 0. For a from 2^31 on the division
\* goes through a >> 1, which fits.
UDivMod(a, b) ==
    IF b < 0
    THEN IF a < 0 /\ a >= b THEN [q |-> 1, r |-> a - b] ELSE [q |-> 0, r |-> a]
    ELSE IF a >= 0
    THEN [q |-> a \div b, r |-> a % b]
    ELSE LET h == ((a \div 2) + 2147483647) + 1
             b0 == a % 2
             qh == h \div b
             rh == h % b
             carry == rh >= (b - rh) - b0
             c == IF carry THEN 1 ELSE 0
         IN  [q |-> IF qh >= 1073741824
                    THEN ((((qh - 1073741824) + (qh - 1073741824)) + c) - 2147483647) - 1
                    ELSE (qh + qh) + c,
              r |-> IF carry THEN (rh - (b - rh)) + b0 ELSE (rh + rh) + b0]

UDiv(a, b) == UDivMod(a, b).q
UMod(a, b) == UDivMod(a, b).r

\* "%u" of a guint, "%lu" of a guint widened to guint64: the decimal digits
\* of the unsigned value
FmtU(v) ==
    IF v >= 0
    THEN ToString(v)
    ELSE ToString(UDivMod(v, 10).q) \o ToString(UDivMod(v, 10).r)

\* A maximum that keeps the last value.
Max_LastWins(a, b) == b

\* A minimum that takes the larger value.
Min_Larger(a, b) == IF ULess(a, b) THEN b ELSE a

\* MAX (a, b) and MIN (a, b) of two guint
Max(a, b) == IF ULess(b, a) THEN a ELSE b
Min(a, b) == IF ULess(a, b) THEN a ELSE b

\* An adaptive stream: what the GtuberStream / GtuberAdaptiveStream getters
\* used by the generator return.
Stream(itag, mime, vcodec, acodec, width, height, fps, ranges) ==
    [itag |-> itag, mime |-> mime, vcodec |-> vcodec, acodec |-> acodec,
     width |-> width, height |-> height, fps |-> fps,
     bitrate |-> itag * 1000, uri |-> "http://h/" \o ToString(itag),
     has_init |-> ranges, init_start |-> 0, init_end |-> 99,
     has_index |-> ranges, index_start |-> 100, index_end |-> 199]

S_avc720 == Stream(22, VIDEO_MP4, C_avc1, C_mp4a, 1280, 720, 30, TRUE)
S_avc360 == Stream(18, VIDEO_MP4, C_avc1, NULLSTR, 640, 360, 30, TRUE)
S_avc0 == Stream(17, VIDEO_MP4, C_avc1, NULLSTR, 0, 0, 0, FALSE)
S_vp9 == Stream(248, VIDEO_WEBM, C_vp9, NULLSTR, 1920, 1080, 60, TRUE)
S_av01 == Stream(399, VIDEO_MP4, C_av01, NULLSTR, 640, 480, 0, TRUE)
S_mp4a == Stream(140, AUDIO_MP4, NULLSTR, C_mp4a, 0, 0, 0, TRUE)
S_opus == Stream(251, AUDIO_WEBM, C_avc1, C_opus, 0, 0, 0, FALSE)
S_novideo == Stream(5, VIDEO_MP4, NULLSTR, C_mp4a, 320, 240, 25, TRUE)
S_unkmime == Stream(6, MIME_UNKNOWN, C_avc1, C_mp4a, 4096, 2160, 120, TRUE)
S_av1 == Stream(7, VIDEO_MP4, C_av1, NULLSTR, 7680, 4320, 90, TRUE)

\* Streams with no dimension and no range, one dimension and one range.
S_bare == Stream(141, AUDIO_MP4, NULLSTR, C_mp4a, 0, 0, 0, FALSE)
S_wide == [Stream(301, VIDEO_WEBM, C_vp9, NULLSTR, 640, 0, 24, TRUE)
              EXCEPT !.has_init = FALSE]
S_tall == [Stream(302, VIDEO_MP4, C_hev1, C_opus, 0, 480, 0, TRUE)
              EXCEPT !.has_index = FALSE]

StreamUniverse ==
    {S_avc720, S_avc360, S_avc0, S_vp9, S_av01, S_mp4a, S_opus,
     S_novideo, S_unkmime, S_av1}

SeqsUpTo(S, n) == UNION {[1..k -> S] : k \in 0..n}

(* ------------------------------------------------------------------ *)
(* Codec classification                                                 *)
(* ------------------------------------------------------------------ *)
\* A classifier that takes any "av" codec for AV1.
get_dash_video_codec_Loose(codec) ==
    IF codec # NULLSTR
    THEN IF g_str_has_prefix(codec, <<"a", "v", "c">>) THEN DASH_CODEC_AVC
         ELSE IF g_str_has_prefix(codec, <<"v", "p", "9">>) THEN DASH_CODEC_VP9
         ELSE IF g_str_has_prefix(codec, <<"h", "e", "v">>) THEN DASH_CODEC_HEVC
         ELSE IF g_str_has_prefix(codec, <<"a", "v">>) THEN DASH_CODEC_AV1
         ELSE DASH_CODEC_UNKNOWN
    ELSE DASH_CODEC_UNKNOWN

get_dash_video_codec(codec) ==
    IF codec # NULLSTR
    THEN IF g_str_has_prefix(codec, <<"a", "v", "c">>) THEN DASH_CODEC_AVC
         ELSE IF g_str_has_prefix(codec, <<"v", "p", "9">>) THEN DASH_CODEC_VP9
         ELSE IF g_str_has_prefix(codec, <<"h", "e", "v">>) THEN DASH_CODEC_HEVC
         ELSE IF g_str_has_prefix(codec, <<"a", "v", "0", "1">>) THEN DASH_CODEC_AV1
         ELSE DASH_CODEC_UNKNOWN
    ELSE DASH_CODEC_UNKNOWN

get_dash_audio_codec(codec) ==
    IF codec # NULLSTR
    THEN IF g_str_has_prefix(codec, <<"m", "p", "4", "a">>) THEN DASH_CODEC_MP4A
         ELSE IF g_str_has_prefix(codec, <<"o", "p", "u", "s">>) THEN DASH_CODEC_OPUS
         ELSE DASH_CODEC_UNKNOWN
    ELSE DASH_CODEC_UNKNOWN

(* ------------------------------------------------------------------ *)
(* Pixel aspect ratio                                                   *)
(* ------------------------------------------------------------------ *)
RECURSIVE _get_gcd(_, _)
_get_gcd(width, height) ==
    IF height # 0 THEN _get_gcd(height, UMod(width, height)) ELSE width

\* "%i" of a guint: printf reads the 32 bits as a signed int
FmtI(v) == ToString(v)

obtain_par_from_res(width, height) ==
    IF width = 0 \/ height = 0
    THEN "1:1"
    ELSE LET gcd == _get_gcd(width, height)
         IN  FmtI(UDiv(width, gcd)) \o ":" \o FmtI(UDiv(height, gcd))

(* ------------------------------------------------------------------ *)
(* Stream filter                                                        *)
(* ------------------------------------------------------------------ *)
\* The GtuberAdaptiveStreamFilter functions a caller registers in the model.
FilterFuncs == {"reject_all", "min_height"}

\* filter (astream, user_data): a call of the caller's predicate
CallFilter(func, user_data, stream) ==
    CASE func = "reject_all" -> FALSE
      [] func = "min_height" -> stream.height >= user_data * 360
      [] OTHER -> TRUE

(* ------------------------------------------------------------------ *)
(* Adaptation grouping                                                  *)
(* ------------------------------------------------------------------ *)
dash_adaptation_data_new(mime_type, dash_codec) ==
    [mime_type |-> mime_type, dash_codec |-> dash_codec,
     max_width |-> 0, max_height |-> 0, max_fps |-> 0,
     adaptive_streams |-> <<>>]

\* The codec string the switch on the mime type selects (NULLSTR if none).
StreamCodec(stream) ==
    CASE stream.mime \in {VIDEO_MP4, VIDEO_WEBM} -> stream.vcodec
      [] stream.mime \in {AUDIO_MP4, AUDIO_WEBM} -> stream.acodec
      [] OTHER -> NULLSTR

StreamDashCodec(stream) ==
    CASE stream.mime \in {VIDEO_MP4, VIDEO_WEBM} -> get_dash_video_codec(stream.vcodec)
      [] stream.mime \in {AUDIO_MP4, AUDIO_WEBM} -> get_dash_audio_codec(stream.acodec)
      [] OTHER -> DASH_CODEC_UNKNOWN

\* A lookup that compares the mime type alone.
FindAdaptation_MimeOnly(adaptations, mime_type, dash_codec) ==
    LET hits == {i \in 1..Len(adaptations) : adaptations[i].mime_type = mime_type}
    IN  IF hits = {} THEN 0 ELSE CHOOSE i \in hits : \A j \in hits : i <= j

\* The index of the first adaptation with this key, 0 if there is none.
FindAdaptation(adaptations, mime_type, dash_codec) ==
    LET hits == {i \in 1..Len(adaptations) :
                    /\ adaptations[i].mime_type = mime_type
                    /\ adaptations[i].dash_codec = dash_codec}
    IN  IF hits = {} THEN 0 ELSE CHOOSE i \in hits : \A j \in hits : i <= j

\* Returns the array (a new adaptation appended when the key is new) and the
\* index of the stream's adaptation in it, 0 for the NULL return.
get_adaptation_data_for_stream(stream, adaptations) ==
    LET codec == StreamCodec(stream)
        dash_codec == StreamDashCodec(stream)
    IN  IF codec # NULLSTR /\ dash_codec # DASH_CODEC_UNKNOWN
        THEN LET found == FindAdaptation(adaptations, stream.mime, dash_codec)
             IN  IF found # 0
                 THEN [data |-> found, adaptations |-> adaptations]
                 ELSE [data |-> Len(adaptations) + 1,
                       adaptations |->
                           Append(adaptations,
                                  dash_adaptation_data_new(stream.mime, dash_codec))]
        ELSE [data |-> 0, adaptations |-> adaptations]

\* The filter the callback consults: self's registered function, if any.
SortFilterAccepts(self, stream) ==
    IF self.filter_func # NOFUNC
    THEN CallFilter(self.filter_func, self.filter_data, stream)
    ELSE TRUE

\* The value of a singleton set: binds the result of a pass once, so that
\* the passes of a loop are evaluated one after the other.
TheOne(S) == CHOOSE x \in S : TRUE

\* One call of the callback on entry i of the stream array. sort_data holds
\* the adaptations and the log of the filter calls made so far.
_sort_streams_cb(self, astreams, i, sort_data) ==
    LET stream == astreams[i]
        add == SortFilterAccepts(self, stream)
        calls == IF self.filter_func # NOFUNC
                 THEN Append(sort_data.calls,
                             [func |-> self.filter_func, data |-> self.filter_data,
                              entry |-> i])
                 ELSE sort_data.calls
    IN  IF add
        THEN TheOne({
               IF got.data # 0
               THEN [adaptations |->
                        [got.adaptations EXCEPT
                            ![got.data].max_width = Max(@, stream.width),
                            ![got.data].max_height = Max(@, stream.height),
                            ![got.data].max_fps = Max(@, stream.fps),
                            ![got.data].adaptive_streams = Append(@, i)],
                     calls |-> calls]
               ELSE [adaptations |-> got.adaptations, calls |-> calls] :
               got \in {get_adaptation_data_for_stream(stream, sort_data.adaptations)}})
        ELSE [adaptations |-> sort_data.adaptations, calls |-> calls]

\* g_ptr_array_foreach (astreams, _sort_streams_cb, sort_data), entries 1..n
RECURSIVE SortStreams(_, _, _)
SortStreams(self, astreams, n) ==
    IF n = 0
    THEN [adaptations |-> <<>>, calls |-> <<>>]
    ELSE TheOne({_sort_streams_cb(self, astreams, n, sort_data) :
                    sort_data \in {SortStreams(self, astreams, n - 1)}})

(* ------------------------------------------------------------------ *)
(* Text emission                                                        *)
(* The text of a GString is the concatenation of the fragments appended *)
(* to it. Each emitting function is modelled by the sequence of the     *)
(* non-empty fragments it appends, in order; an indentation space and a *)
(* line break are fragments of their own.                               *)
(* ------------------------------------------------------------------ *)
g_string_append(text) == IF text = "" THEN <<>> ELSE <<text>>

Spaces(n) == [k \in 1..n |-> " "]

\* An indentation of one indent width at every depth.
add_line_no_newline_Flat(self, depth, line) ==
    (IF self.pretty THEN Spaces(self.indent) ELSE <<>>) \o g_string_append(line)

add_line_no_newline(self, depth, line) ==
    LET indent == depth * self.indent
    IN  (IF self.pretty THEN Spaces(indent) ELSE <<>>) \o g_string_append(line)

\* A finish_line that appends the suffix in pretty mode only.
finish_line_PrettyOnly(self, suffix) ==
    IF self.pretty THEN g_string_append(suffix) \o g_string_append("\n") ELSE <<>>

\* suffix is "" for the NULL suffix: "%s%s" prints nothing for it either way
finish_line(self, suffix) ==
    g_string_append(suffix) \o g_string_append(IF self.pretty THEN "\n" ELSE "")

add_line(self, depth, line) ==
    add_line_no_newline(self, depth, line) \o finish_line(self, "")

add_option_string(key, value) ==
    g_string_append(" " \o key \o "=\"" \o value \o "\"")

add_option_int(key, value) ==
    g_string_append(" " \o key \o "=\"" \o FmtU(value) \o "\"")

add_option_range(key, start, end) ==
    g_string_append(
        " " \o key \o "=\"" \o ToString(start) \o "-" \o ToString(end) \o "\"")

add_option_boolean(key, value) ==
    g_string_append(
        " " \o key \o "=\"" \o (IF value THEN "true" ELSE "false") \o "\"")

\* content_str and mime_str; "" stands for the NULL result
parse_content_and_mime_type(mime_type) ==
    LET content_str ==
            CASE mime_type \in {VIDEO_MP4, VIDEO_WEBM} -> "video"
              [] mime_type \in {AUDIO_MP4, AUDIO_WEBM} -> "audio"
              [] OTHER -> ""
        mime_str ==
            CASE mime_type \in {VIDEO_MP4, AUDIO_MP4} -> content_str \o "/" \o "mp4"
              [] mime_type \in {VIDEO_WEBM, AUDIO_WEBM} -> content_str \o "/" \o "webm"
              [] OTHER -> ""
    IN  [content_str |-> content_str, mime_str |-> mime_str]

\* A codecs attribute that names the video codec alone when there is one.
AddCodecs_VideoFirst(stream) ==
    IF stream.vcodec # NULLSTR
    THEN add_option_string("codecs", CStr(stream.vcodec))
    ELSE IF stream.acodec # NULLSTR
    THEN add_option_string("codecs", CStr(stream.acodec))
    ELSE <<>>

\* The codecs attribute: gtuber_stream_get_codecs () is TRUE when the stream
\* has a video or an audio codec.
AddCodecs(stream) ==
    LET vcodec == stream.vcodec
        acodec == stream.acodec
    IN  IF vcodec # NULLSTR \/ acodec # NULLSTR
        THEN IF vcodec # NULLSTR /\ acodec # NULLSTR
             THEN add_option_string("codecs", CStr(vcodec) \o ", " \o CStr(acodec))
             ELSE IF vcodec # NULLSTR
                  THEN add_option_string("codecs", CStr(vcodec))
                  ELSE add_option_string("codecs", CStr(acodec))
        ELSE <<>>

_add_representation_cb(self, stream) ==
    LET width == stream.width
        height == stream.height
        fps == stream.fps
    IN  add_line_no_newline(self, 3, "<Representation")
        \o add_option_int("id", stream.itag)
        \o AddCodecs(stream)
        \o add_option_int("bandwidth", stream.bitrate)
        \o (IF width # 0 THEN add_option_int("width", width) ELSE <<>>)
        \o (IF height # 0 THEN add_option_int("height", height) ELSE <<>>)
        \o (IF width # 0 /\ height # 0 THEN add_option_string("sar", "1:1") ELSE <<>>)
        \o (IF fps # 0 THEN add_option_int("frameRate", fps) ELSE <<>>)
        \o finish_line(self, ">")
        \o add_line_no_newline(self, 4, "<BaseURL>")
        \o add_line_no_newline(self, 0, stream.uri)
        \o finish_line(self, "</BaseURL>")
        \o add_line_no_newline(self, 4, "<SegmentBase")
        \o (IF stream.has_index
            THEN add_option_range("indexRange", stream.index_start, stream.index_end)
            ELSE <<>>)
        \o add_option_boolean("indexRangeExact", TRUE)
        \o finish_line(self, ">")
        \o add_line_no_newline(self, 5, "<Initialization")
        \o (IF stream.has_init
            THEN add_option_range("range", stream.init_start, stream.init_end)
            ELSE <<>>)
        \o finish_line(self, "/>")
        \o add_line(self, 4, "</SegmentBase>")
        \o add_line(self, 3, "</Representation>")

\* g_ptr_array_foreach (adaptation->adaptive_streams, _add_representation_cb)
RECURSIVE AddRepresentations(_, _, _, _)
AddRepresentations(self, astreams, members, n) ==
    IF n = 0
    THEN <<>>
    ELSE AddRepresentations(self, astreams, members, n - 1)
         \o _add_representation_cb(self, astreams[members[n]])

_add_adaptation_set_cb(self, astreams, adaptation) ==
    LET p == parse_content_and_mime_type(adaptation.mime_type)
    IN  IF p.content_str = "" \/ p.mime_str = ""
        THEN <<>>
        ELSE add_line_no_newline(self, 2, "<AdaptationSet")
             \o add_option_string("contentType", p.content_str)
             \o add_option_string("mimeType", p.mime_str)
             \o add_option_boolean("subsegmentAlignment", TRUE)
             \o add_option_int("subsegmentStartsWithSAP", 1)
             \o (IF p.content_str = "video"
                 THEN add_option_int("maxWidth", adaptation.max_width)
                      \o add_option_int("maxHeight", adaptation.max_height)
                      \o add_option_string("par",
                             obtain_par_from_res(adaptation.max_width,
                                                 adaptation.max_height))
                      \o add_option_int("maxFrameRate", adaptation.max_fps)
                 ELSE <<>>)
             \o finish_line(self, ">")
             \o AddRepresentations(self, astreams, adaptation.adaptive_streams,
                                   Len(adaptation.adaptive_streams))
             \o add_line(self, 2, "</AdaptationSet>")

\* g_ptr_array_foreach (adaptations, _add_adaptation_set_cb, data)
RECURSIVE AddAdaptationSets(_, _, _, _)
AddAdaptationSets(self, astreams, adaptations, n) ==
    IF n = 0
    THEN <<>>
    ELSE AddAdaptationSets(self, astreams, adaptations, n - 1)
         \o _add_adaptation_set_cb(self, astreams, adaptations[n])

obtain_time_as_pts(value) == "PT" \o FmtU(value) \o "S"

\* A dump_data without the check for an empty adaptations array.
DumpText_NoEmptyCheck(self, info, adaptations) ==
    add_line_no_newline(self, 0, "<?xml")
    \o add_option_string("version", "1.0")
    \o add_option_string("encoding", "UTF-8")
    \o finish_line(self, "?>")
    \o add_line_no_newline(self, 0, "<MPD")
    \o add_option_string("xmlns:xsi", "http://www.w3.org/2001/XMLSchema-instance")
    \o add_option_string("xmlns", "urn:mpeg:dash:schema:mpd:2011")
    \o add_option_string("xsi:schemaLocation",
                         "urn:mpeg:dash:schema:mpd:2011 DASH-MPD.xsd")
    \o add_option_string("type", "static")
    \o add_option_string("mediaPresentationDuration",
                         obtain_time_as_pts(info.duration))
    \o add_option_string("minBufferTime",
                         obtain_time_as_pts(Min(2, info.duration)))
    \o add_option_string("profiles",
                         "urn:mpeg:dash:profile:isoff-on-demand:2011")
    \o finish_line(self, ">")
    \o add_line(self, 1, "<Period>")
    \o AddAdaptationSets(self, info.astreams, adaptations, Len(adaptations))
    \o add_line(self, 1, "</Period>")
    \o add_line_no_newline(self, 0, "</MPD>")

\* The text dump_data appends to the empty string for these adaptations.
DumpText(self, info, adaptations) ==
    IF Len(adaptations) = 0
    THEN <<>>
    ELSE
      LET duration == info.duration
          dur_pts == obtain_time_as_pts(duration)
          buf_time == Min(2, duration)
          buf_pts == obtain_time_as_pts(buf_time)
      IN  add_line_no_newline(self, 0, "<?xml")
          \o add_option_string("version", "1.0")
          \o add_option_string("encoding", "UTF-8")
          \o finish_line(self, "?>")
          \o add_line_no_newline(self, 0, "<MPD")
          \o add_option_string("xmlns:xsi", "http://www.w3.org/2001/XMLSchema-instance")
          \o add_option_string("xmlns", "urn:mpeg:dash:schema:mpd:2011")
          \o add_option_string("xsi:schemaLocation",
                               "urn:mpeg:dash:schema:mpd:2011 DASH-MPD.xsd")
          \o add_option_string("type", "static")
          \o add_option_string("mediaPresentationDuration", dur_pts)
          \o add_option_string("minBufferTime", buf_pts)
          \o add_option_string("profiles",
                               "urn:mpeg:dash:profile:isoff-on-demand:2011")
          \o finish_line(self, ">")
          \o add_line(self, 1, "<Period>")
          \o AddAdaptationSets(self, info.astreams, adaptations, Len(adaptations))
          \o add_line(self, 1, "</Period>")
          \o add_line_no_newline(self, 0, "</MPD>")

\* dump_data: the adaptations at the end of the sort pass, the filter calls
\* made, and the text appended to the string.
dump_data(self, info) ==
    TheOne({[adaptations |-> sorted.adaptations,
             calls |-> sorted.calls,
             string |-> DumpText(self, info, sorted.adaptations)] :
            sorted \in {SortStreams(self, info.astreams, Len(info.astreams))}})

\* string->len: the bytes of the text
RECURSIVE GStringLen(_)
GStringLen(string) ==
    IF string = <<>>
    THEN 0
    ELSE IF Len(string) = 1
    THEN Len(string[1])
    ELSE GStringLen(SubSeq(string, 1, Len(string) \div 2))
         + GStringLen(SubSeq(string, Len(string) \div 2 + 1, Len(string)))

(* ------------------------------------------------------------------ *)
(* State                                                                *)
(* ------------------------------------------------------------------ *)
VARIABLES
    pretty, indent,          \* self->pretty, self->indent
    media_info,              \* self->media_info: NULL or the id of a media info
    filter_func,             \* self->filter_func: NULL or a filter function
    filter_data,             \* self->filter_data
    filter_destroy,          \* self->filter_destroy: NULL or a GDestroyNotify
    gstate,                  \* "alive", "finalized" or "crashed"
    infos,                   \* the media-info objects: id -> [astreams, duration]
    refcount,                \* id -> reference count of the media info
    caller_ref,              \* id -> the caller still holds its own reference
    freed,                   \* id -> the media info has been finalized
    regs,                    \* the accepted set_filter_func calls, in order, each
                             \* with the dispose runs made before it
    destroy_log,             \* the GDestroyNotify calls made, in order
    nsets, ngens, ndispose,  \* calls made so far (bounded)
    result,                  \* what the last to_data / to_file call returned
    dump,                    \* the last dump_data pass: its input and outcome
    target, temp,            \* the file at filename, g_file_set_contents' temp file
    pc,                      \* "idle", or the step a to_file call has reached
    buf, written,            \* the text being written, the fragments written
    prior                    \* the target as it was when the to_file call began

genv == <<pretty, indent, media_info, filter_func, filter_data, filter_destroy, gstate>>
heapv == <<infos, refcount, caller_ref, freed>>
filtv == <<regs, destroy_log>>
cntv == <<nsets, ngens, ndispose>>
callv == <<result, dump>>
filev == <<target, temp, pc, buf, written, prior>>
vars == <<genv, heapv, filtv, cntv, callv, filev>>

InfoIds == {1, 2}

\* The GDestroyNotify a caller registers with its user data.
DESTROY_FUNC == "g_free"

Absent == [exists |-> FALSE, content |-> <<>>]
File(content) == [exists |-> TRUE, content |-> content]
OldContent == <<"previous", " content">>

\* op: the call that returned ("to_file:running" while it has not); null:
\* gen_to_data_internal returned NULL; step: the step of g_file_set_contents
\* that failed; error: the GError set; critical: a g_return_if_fail fired.
NoResult ==
    [op |-> "none", null |-> FALSE, text |-> <<>>, len |-> 0,
     success |-> FALSE, error |-> "none", step |-> "none", critical |-> FALSE]
\* at_reg, at_dispose: the accepted registrations and the dispose runs
\* before the pass; pretty, indent, duration: what the pass read of self
\* and of the media info.
NoDump ==
    [valid |-> FALSE, astreams |-> <<>>, filter_func |-> NOFUNC, filter_data |-> NULL,
     at_reg |-> 0, at_dispose |-> 0,
     pretty |-> FALSE, indent |-> 0, duration |-> 0,
     adaptations |-> <<>>, calls |-> <<>>, string |-> <<>>]

\* The fields of self that generation reads.
Self ==
    [pretty |-> pretty, indent |-> indent,
     filter_func |-> filter_func, filter_data |-> filter_data]

\* gtuber_manifest_generator_init, and the world around the new generator:
\* two media infos the caller created and holds, a target path that holds
\* a file or none.
Init ==
    /\ pretty = FALSE
    /\ indent = 2
    /\ media_info = NULL
    /\ filter_func = NOFUNC
    /\ filter_data = NULL
    /\ filter_destroy = NOFUNC
    /\ gstate = "alive"
    /\ infos = [i \in InfoIds |->
                  IF i = 1
                  THEN [astreams |-> <<>>, duration |-> 0]
                  ELSE [astreams |-> <<S_avc720, S_unkmime, S_mp4a>>,
                        duration |-> 125]]
    /\ refcount = [i \in InfoIds |-> 1]
    /\ caller_ref = [i \in InfoIds |-> TRUE]
    /\ freed = [i \in InfoIds |-> FALSE]
    /\ regs = <<>>
    /\ destroy_log = <<>>
    /\ nsets = 0 /\ ngens = 0 /\ ndispose = 0
    /\ result = NoResult
    /\ dump = NoDump
    /\ target \in {Absent, File(OldContent)}
    /\ temp = Absent
    /\ pc = "idle"
    /\ buf = <<>>
    /\ written = 0
    /\ prior = Absent

\* No call is in progress on the generator and it can take one.
Callable == gstate = "alive" /\ pc = "idle"

(* ------------------------------------------------------------------ *)
(* Media info: references                                               *)
(* ------------------------------------------------------------------ *)
\* g_object_unref (info): the count, and whether that finalized the object
UnrefCount(rc, i) == [rc EXCEPT ![i] = @ - 1]
UnrefFreed(rc, fr, i) == [fr EXCEPT ![i] = (rc[i] - 1 = 0)]

\* The caller drops its own reference on media info i.
CallerUnref(i) ==
    /\ Callable
    /\ caller_ref[i]
    /\ caller_ref' = [caller_ref EXCEPT ![i] = FALSE]
    /\ refcount' = UnrefCount(refcount, i)
    /\ freed' = UnrefFreed(refcount, freed, i)
    /\ UNCHANGED <<genv, infos, filtv, cntv, callv, filev>>

\* The reference counts and the finalized objects after
\*   if (self->media_info) g_object_unref (self->media_info);
\* for a self->media_info that is still an object.
AfterUnrefOld(old) ==
    IF old = NULL
    THEN [rc |-> refcount, fr |-> freed]
    ELSE [rc |-> UnrefCount(refcount, old), fr |-> UnrefFreed(refcount, freed, old)]

\* set_media_info (self, info) with info a media info the caller may pass:
\* one it holds a reference on, or the one the generator keeps alive. The
\* old reference is dropped first and the new one taken after; the info is
\* still an object when it is referenced.
gtuber_manifest_generator_set_media_info(i) ==
    /\ Callable
    /\ nsets < MaxSets
    /\ ~freed[i]
    /\ media_info # NULL => ~freed[media_info]
    /\ LET u == AfterUnrefOld(media_info)
       IN  /\ ~u.fr[i]
           /\ refcount' = [u.rc EXCEPT ![i] = @ + 1]
           /\ freed' = u.fr
           /\ media_info' = i
    /\ nsets' = nsets + 1
    /\ UNCHANGED <<pretty, indent, filter_func, filter_data, filter_destroy, gstate,
                   infos, caller_ref, filtv, ngens, ndispose, callv, filev>>

\* set_media_info (self, info) with info the media info already set, whose
\* only reference is the generator's: g_object_unref finalizes it, and
\* g_object_ref is then called on the finalized object. That call returns
\* the pointer (self->media_info dangles), fails its type check and returns
\* NULL, or faults.
SetMediaInfoLastRef(i) ==
    /\ Callable
    /\ nsets < MaxSets
    /\ ~freed[i]
    /\ media_info = i
    /\ AfterUnrefOld(media_info).fr[i]
    /\ refcount' = AfterUnrefOld(media_info).rc
    /\ freed' = AfterUnrefOld(media_info).fr
    /\ \E outcome \in {"dangling", "null", "fault"} :
          /\ media_info' = IF outcome = "null" THEN NULL ELSE i
          /\ gstate' = IF outcome = "fault" THEN "crashed" ELSE gstate
    /\ nsets' = nsets + 1
    /\ UNCHANGED <<pretty, indent, filter_func, filter_data, filter_destroy,
                   infos, caller_ref, filtv, ngens, ndispose, callv, filev>>

\* set_media_info (self, info) while self->media_info dangles: g_object_unref
\* is called on the finalized object (it faults, or fails its type check and
\* does nothing), then the new reference is taken.
SetMediaInfoOverDangling(i) ==
    /\ Callable
    /\ nsets < MaxSets
    /\ ~freed[i]
    /\ media_info # NULL /\ freed[media_info]
    /\ \E outcome \in {"nothing", "fault"} :
          IF outcome = "fault"
          THEN gstate' = "crashed" /\ UNCHANGED <<media_info, refcount>>
          ELSE /\ refcount' = [refcount EXCEPT ![i] = @ + 1]
               /\ media_info' = i
               /\ UNCHANGED gstate
    /\ nsets' = nsets + 1
    /\ UNCHANGED <<pretty, indent, filter_func, filter_data, filter_destroy,
                   infos, caller_ref, freed, filtv, ngens, ndispose, callv, filev>>

\* set_media_info (self, info) with info NULL or no GtuberMediaInfo:
\* g_return_if_fail returns before anything is touched.
SetMediaInfoRejected ==
    /\ Callable
    /\ nsets < MaxSets
    /\ nsets' = nsets + 1
    /\ UNCHANGED <<genv, heapv, filtv, ngens, ndispose, callv, filev>>

(* ------------------------------------------------------------------ *)
(* Filter registration, dispose, finalize                               *)
(* ------------------------------------------------------------------ *)
\* A call notify (data) of a destroy notifier, logged with the number of
\* the registration that was the latest accepted one when it was made and
\* with what self->filter_func and self->filter_data held at that moment.
DestroyCall(log, notify, data, seen_func, seen_data) ==
    Append(log, [notify |-> notify, data |-> data, reg |-> Len(regs),
                 seen_func |-> seen_func, seen_data |-> seen_data])

\* A set_filter_func that overwrites the fields first and runs the old
\* notifier on self->filter_data afterwards.
set_filter_func_body_InstallFirst(filter, user_data, destroy) ==
    [log |-> IF filter_destroy # NOFUNC
             THEN DestroyCall(destroy_log, filter_destroy, user_data,
                              filter, user_data)
             ELSE destroy_log,
     filter_func |-> filter,
     filter_data |-> user_data,
     filter_destroy |-> destroy]

\* The body of set_filter_func past its checks: the old notifier runs on the
\* old user data while the old registration is still in place, then the
\* three fields are overwritten.
set_filter_func_body(filter, user_data, destroy) ==
    [log |-> IF filter_destroy # NOFUNC
             THEN DestroyCall(destroy_log, filter_destroy, filter_data,
                              filter_func, filter_data)
             ELSE destroy_log,
     filter_func |-> filter,
     filter_data |-> user_data,
     filter_destroy |-> destroy]

\* set_filter_func (self, filter, user_data, destroy), accepted:
\* filter || (user_data == NULL && !destroy)
gtuber_manifest_generator_set_filter_func(filter, user_data, destroy) ==
    /\ Callable
    /\ Len(regs) < MaxRegs
    /\ filter # NOFUNC \/ (user_data = NULL /\ destroy = NOFUNC)
    /\ LET b == set_filter_func_body(filter, user_data, destroy)
       IN  /\ destroy_log' = b.log
           /\ filter_func' = b.filter_func
           /\ filter_data' = b.filter_data
           /\ filter_destroy' = b.filter_destroy
    /\ regs' = Append(regs, [filter |-> filter, user_data |-> user_data,
                             destroy |-> destroy, at_dispose |-> ndispose])
    /\ UNCHANGED <<pretty, indent, media_info, gstate, heapv, cntv, callv, filev>>

\* set_filter_func with no filter but user data or a notifier:
\* g_return_if_fail returns before anything is touched.
SetFilterFuncRejected(user_data, destroy) ==
    /\ Callable
    /\ user_data # NULL \/ destroy # NOFUNC
    /\ UNCHANGED vars

\* The arguments a caller passes: a filter or none, fresh user data or none,
\* a notifier or none.
FilterArgs ==
    {<<f, d, n>> : f \in FilterFuncs \cup {NOFUNC},
                   d \in {NULL, Len(regs) + 1},
                   n \in {NOFUNC, DESTROY_FUNC}}

\* The configuration of the generator (pretty-print flag, indent width).
set_pretty(value) ==
    /\ Callable
    /\ pretty' = value
    /\ UNCHANGED <<indent, media_info, filter_func, filter_data, filter_destroy,
                   gstate, heapv, filtv, cntv, callv, filev>>

set_indent(value) ==
    /\ Callable
    /\ indent' = value
    /\ UNCHANGED <<pretty, media_info, filter_func, filter_data, filter_destroy,
                   gstate, heapv, filtv, cntv, callv, filev>>

\* A dispose that leaves filter_destroy set.
dispose_body_KeepsNotifier ==
    [log |-> IF filter_destroy # NOFUNC
             THEN DestroyCall(destroy_log, filter_destroy, filter_data,
                              filter_func, filter_data)
             ELSE destroy_log,
     filter_func |-> NOFUNC,
     filter_destroy |-> filter_destroy]

\* The body of dispose: the notifier runs if one is registered, then
\* filter_func and filter_destroy are cleared (filter_data is left).
dispose_body ==
    [log |-> IF filter_destroy # NOFUNC
             THEN DestroyCall(destroy_log, filter_destroy, filter_data,
                              filter_func, filter_data)
             ELSE destroy_log,
     filter_func |-> NOFUNC,
     filter_destroy |-> NOFUNC]

\* g_object_run_dispose (self): dispose runs, the object lives on.
gtuber_manifest_generator_dispose ==
    /\ Callable
    /\ ndispose < MaxDispose
    /\ destroy_log' = dispose_body.log
    /\ filter_func' = dispose_body.filter_func
    /\ filter_destroy' = dispose_body.filter_destroy
    /\ ndispose' = ndispose + 1
    /\ UNCHANGED <<pretty, indent, media_info, filter_data, gstate, heapv, regs,
                   nsets, ngens, callv, filev>>

\* The last g_object_unref (self): dispose, then finalize, which drops the
\* media-info reference if one is held. On a dangling self->media_info the
\* unref faults or fails its type check and does nothing.
gtuber_manifest_generator_finalize ==
    /\ Callable
    /\ destroy_log' = dispose_body.log
    /\ filter_func' = dispose_body.filter_func
    /\ filter_destroy' = dispose_body.filter_destroy
    /\ IF media_info = NULL
       THEN gstate' = "finalized" /\ UNCHANGED <<refcount, freed>>
       ELSE IF ~freed[media_info]
       THEN /\ refcount' = UnrefCount(refcount, media_info)
            /\ freed' = UnrefFreed(refcount, freed, media_info)
            /\ gstate' = "finalized"
       ELSE /\ gstate' \in {"finalized", "crashed"}
            /\ UNCHANGED <<refcount, freed>>
    /\ UNCHANGED <<pretty, indent, media_info, filter_data, infos, caller_ref, regs,
                   cntv, callv, filev>>

(* ------------------------------------------------------------------ *)
(* Generation                                                           *)
(* ------------------------------------------------------------------ *)
\* gen_to_data_internal reading media info `info` through self->media_info:
\* NULL (with a logged critical) when no media info is set, else the text
\* of dump_data and its length.
gen_to_data_internal(self, mi, info) ==
    IF mi = NULL
    THEN [null |-> TRUE, critical |-> TRUE, text |-> <<>>, len_set |-> FALSE,
          len |-> 0, dump |-> dump]
    ELSE TheOne({
           [null |-> FALSE, critical |-> FALSE, text |-> d.string,
            len_set |-> TRUE, len |-> GStringLen(d.string),
            dump |-> [valid |-> TRUE, astreams |-> info.astreams,
                      filter_func |-> self.filter_func,
                      filter_data |-> self.filter_data,
                      at_reg |-> Len(regs), at_dispose |-> ndispose,
                      pretty |-> self.pretty, indent |-> self.indent,
                      duration |-> info.duration,
                      adaptations |-> d.adaptations, calls |-> d.calls,
                      string |-> d.string]] :
           d \in {dump_data(self, info)}})

\* What self->media_info can be read as: the object, or, when it dangles,
\* whatever lies at the address now.
ReadableInfos ==
    IF media_info = NULL THEN {infos[1]}
    ELSE IF ~freed[media_info] THEN {infos[media_info]}
    ELSE {infos[j] : j \in InfoIds}

\* gtuber_manifest_generator_to_data (self)
gtuber_manifest_generator_to_data ==
    /\ Callable
    /\ ngens < MaxGens
    /\ \E info \in ReadableInfos :
         \E r \in {gen_to_data_internal(Self, media_info, info)} :
             /\ result' = [op |-> "to_data", null |-> r.null, text |-> r.text,
                           len |-> r.len, success |-> ~r.null, error |-> "none",
                           step |-> "none", critical |-> r.critical]
             /\ dump' = r.dump
    /\ ngens' = ngens + 1
    /\ UNCHANGED <<genv, heapv, filtv, nsets, ndispose, filev>>

(* ------------------------------------------------------------------ *)
(* to_file: g_file_set_contents (filename, data, len, error)            *)
(* ------------------------------------------------------------------ *)
\* The values an uninitialized gsize can hold: zero, or anything else.
UninitLens == {0, 1}

\* A write that goes to the file at filename itself.
AfterWrite_InPlace(tgt, tmp, data, upto) ==
    [target |-> File(SubSeq(data, 1, upto)), temp |-> tmp]

\* The files after one write () of g_file_set_contents: the fragments go
\* to the temporary file, the file at filename is not touched.
AfterWrite(tgt, tmp, data, upto) ==
    [target |-> tgt, temp |-> File(SubSeq(data, 1, upto))]

\* The files after the rename () of the temporary file over filename.
AfterRename(tgt, tmp) ==
    [target |-> File(tmp.content), temp |-> Absent]

\* The files after a failed step: the temporary file is unlinked.
AfterFailure(tgt, tmp) ==
    [target |-> tgt, temp |-> Absent]

\* A to_file that drops the outcome of g_file_set_contents.
ToFileResult_Dropped(success, error, step) ==
    [op |-> "to_file", null |-> result.null, text |-> <<>>, len |-> result.len,
     success |-> TRUE, error |-> "none", step |-> step,
     critical |-> result.critical]

\* What to_file returns for the outcome of g_file_set_contents.
ToFileResult(success, error, step) ==
    [op |-> "to_file", null |-> result.null, text |-> <<>>, len |-> result.len,
     success |-> success, error |-> error, step |-> step,
     critical |-> result.critical]

\* to_file up to the call of g_file_set_contents. With no media info set,
\* data is NULL and len was never written: g_file_set_contents refuses
\* NULL contents of a non-zero length (FALSE, no error set) and takes NULL
\* contents of length 0 as the empty text.
ToFileCall ==
    /\ Callable
    /\ ngens < MaxGens
    /\ \E info \in ReadableInfos, garbage \in UninitLens :
         \E r \in {gen_to_data_internal(Self, media_info, info)} :
         LET len == IF r.len_set THEN r.len ELSE garbage
         IN  /\ dump' = r.dump
             /\ IF r.null /\ len # 0
                THEN /\ result' = [ToFileResult(FALSE, "none", "none") EXCEPT
                                      !.critical = TRUE, !.null = TRUE,
                                      !.len = len]
                     /\ prior' = target
                     /\ UNCHANGED <<pc, buf>>
                ELSE /\ result' = [NoResult EXCEPT !.op = "to_file:running",
                                      !.null = r.null, !.critical = r.critical,
                                      !.len = len]
                     /\ pc' = "open"
                     /\ buf' = r.text
                     /\ prior' = target
    /\ ngens' = ngens + 1
    /\ UNCHANGED <<genv, heapv, filtv, nsets, ndispose, target, temp, written>>

\* The temporary file is created next to filename.
FileOpenTemp ==
    /\ pc = "open"
    /\ temp' = File(<<>>)
    /\ written' = 0
    /\ pc' = "write"
    /\ UNCHANGED <<genv, heapv, filtv, cntv, callv, target, buf, prior>>

\* One write (): the next fragments of the text, at most half of it.
FileWrite ==
    /\ pc = "write"
    /\ written < Len(buf)
    /\ LET upto == Min(Len(buf), written + (Len(buf) + 1) \div 2)
           f == AfterWrite(target, temp, buf, upto)
       IN  /\ target' = f.target
           /\ temp' = f.temp
           /\ written' = upto
    /\ UNCHANGED <<genv, heapv, filtv, cntv, callv, pc, buf, prior>>

\* Creating, writing or syncing the temporary file fails: the error is set
\* and FALSE returned.
FileWriteFail ==
    /\ pc \in {"open", "write"}
    /\ LET f == AfterFailure(target, temp)
       IN  target' = f.target /\ temp' = f.temp
    /\ result' = ToFileResult(FALSE, "G_FILE_ERROR", "write")
    /\ pc' = "idle"
    /\ written' = 0
    /\ UNCHANGED <<genv, heapv, filtv, cntv, dump, buf, prior>>

\* The text is written in full; the temporary file is renamed over filename.
FileRename ==
    /\ pc = "write"
    /\ written = Len(buf)
    /\ LET f == AfterRename(target, temp)
       IN  target' = f.target /\ temp' = f.temp
    /\ result' = ToFileResult(TRUE, "none", "none")
    /\ pc' = "idle"
    /\ written' = 0
    /\ UNCHANGED <<genv, heapv, filtv, cntv, dump, buf, prior>>

\* The rename fails after the text was written in full.
FileRenameFail ==
    /\ pc = "write"
    /\ written = Len(buf)
    /\ LET f == AfterFailure(target, temp)
       IN  target' = f.target /\ temp' = f.temp
    /\ result' = ToFileResult(FALSE, "G_FILE_ERROR", "rename")
    /\ pc' = "idle"
    /\ written' = 0
    /\ UNCHANGED <<genv, heapv, filtv, cntv, dump, buf, prior>>

(* ------------------------------------------------------------------ *)
(* Specifications                                                       *)
(* ------------------------------------------------------------------ *)
\* g_file_set_contents, step by step
FileSteps ==
    \/ FileOpenTemp
    \/ FileWrite
    \/ FileWriteFail
    \/ FileRename
    \/ FileRenameFail

\* The media-info reference: the caller's and the generator's references,
\* generation, teardown.
NextInfo ==
    \/ \E i \in InfoIds : CallerUnref(i)
    \/ \E i \in InfoIds : gtuber_manifest_generator_set_media_info(i)
    \/ \E i \in InfoIds : SetMediaInfoLastRef(i)
    \/ \E i \in InfoIds : SetMediaInfoOverDangling(i)
    \/ SetMediaInfoRejected
    \/ gtuber_manifest_generator_to_data
    \/ gtuber_manifest_generator_finalize

SpecInfo == Init /\ [][NextInfo]_vars

\* The generator after set_media_info (self, info 2), the caller keeping
\* its reference.
InitFilter ==
    /\ pretty = FALSE
    /\ indent = 2
    /\ media_info = 2
    /\ filter_func = NOFUNC
    /\ filter_data = NULL
    /\ filter_destroy = NOFUNC
    /\ gstate = "alive"
    /\ infos = [i \in InfoIds |->
                  IF i = 1
                  THEN [astreams |-> <<>>, duration |-> 0]
                  ELSE [astreams |-> <<S_avc720, S_unkmime, S_mp4a>>,
                        duration |-> 125]]
    /\ refcount = [i \in InfoIds |-> IF i = 2 THEN 2 ELSE 1]
    /\ caller_ref = [i \in InfoIds |-> TRUE]
    /\ freed = [i \in InfoIds |-> FALSE]
    /\ regs = <<>>
    /\ destroy_log = <<>>
    /\ nsets = 1 /\ ngens = 0 /\ ndispose = 0
    /\ result = NoResult
    /\ dump = NoDump
    /\ target = Absent
    /\ temp = Absent
    /\ pc = "idle"
    /\ buf = <<>>
    /\ written = 0
    /\ prior = Absent

\* The filter registration: set_filter_func, generation, dispose, teardown.
NextFilter ==
    \/ \E a \in FilterArgs : gtuber_manifest_generator_set_filter_func(a[1], a[2], a[3])
    \/ \E a \in FilterArgs : SetFilterFuncRejected(a[2], a[3])
    \/ gtuber_manifest_generator_dispose
    \/ gtuber_manifest_generator_finalize
    \/ gtuber_manifest_generator_to_data

SpecFilter == InitFilter /\ [][NextFilter]_vars

\* Generation to memory and to a file, before and after a media info is
\* set, with and without an all-rejecting filter.
NextFile ==
    \/ \E i \in InfoIds : gtuber_manifest_generator_set_media_info(i)
    \/ gtuber_manifest_generator_set_filter_func("reject_all", NULL, NOFUNC)
    \/ gtuber_manifest_generator_to_data
    \/ ToFileCall
    \/ FileSteps

SpecFile == Init /\ [][NextFile]_vars

\* The registrations a generation can run under in SpecGen: none, or one
\* accepted set_filter_func call.
GenFilters ==
    {<<NOFUNC, NULL>>, <<"reject_all", NULL>>, <<"min_height", 1>>}

\* One generation over every stream list up to MaxStreams entries and every
\* filter of GenFilters: the generator after set_media_info (self, info 1)
\* and at most one set_filter_func call, info 1 holding the list.
InitGen ==
    /\ pretty = FALSE
    /\ indent = 2
    /\ media_info = 1
    /\ \E f \in GenFilters :
          /\ filter_func = f[1]
          /\ filter_data = f[2]
          /\ regs = IF f[1] = NOFUNC
                    THEN <<>>
                    ELSE <<[filter |-> f[1], user_data |-> f[2], destroy |-> NOFUNC,
                            at_dispose |-> 0]>>
    /\ filter_destroy = NOFUNC
    /\ gstate = "alive"
    /\ \E l \in SeqsUpTo(StreamUniverse, MaxStreams) :
          infos = [i \in InfoIds |->
                     IF i = 1
                     THEN [astreams |-> l, duration |-> 125]
                     ELSE [astreams |-> <<>>, duration |-> 0]]
    /\ refcount = [i \in InfoIds |-> IF i = 1 THEN 2 ELSE 1]
    /\ caller_ref = [i \in InfoIds |-> TRUE]
    /\ freed = [i \in InfoIds |-> FALSE]
    /\ destroy_log = <<>>
    /\ nsets = 1 /\ ngens = MaxGens - 1 /\ ndispose = 0
    /\ result = NoResult
    /\ dump = NoDump
    /\ target = File(OldContent)
    /\ temp = Absent
    /\ pc = "idle"
    /\ buf = <<>>
    /\ written = 0
    /\ prior = Absent

NextGen ==
    \/ gtuber_manifest_generator_to_data
    \/ ToFileCall
    \/ FileSteps

SpecGen == InitGen /\ [][NextGen]_vars

(* ------------------------------------------------------------------ *)
(* Claims                                                               *)
(* ------------------------------------------------------------------ *)
\* A to_file call has returned.
ToFileReturned == pc = "idle" /\ result.op = "to_file"

\* C1 (as claimed): generation on a generator with no media info set fails
\* with an error reported to the caller: to_data returns no text, to_file
\* returns FALSE with the error set.
C1_InvalidStateReported ==
    /\ (result.op = "to_data" /\ result.null) => result.text = <<>>
    /\ (ToFileReturned /\ result.null) =>
           (~result.success /\ result.error # "none")

\* C2: a to_file call in which the write of the temporary file or the
\* rename failed returns FALSE with the error of the failed step set, and
\* the file at filename is what it was when the call began (the same
\* content, or still absent); no temporary file is left.
C2_FailureLeavesTarget ==
    (ToFileReturned /\ result.step # "none") =>
        /\ target = prior
        /\ ~result.success
        /\ result.error = "G_FILE_ERROR"
        /\ temp = Absent

\* C2 witness: the rename failed after the whole of a non-empty text was
\* written, over a file that existed.
C2_Witness ==
    /\ ToFileReturned
    /\ result.step = "rename"
    /\ buf # <<>>
    /\ prior = File(OldContent)
    /\ target = prior

\* C3: from the start of a to_file call on, the file at filename is the
\* file as it was when the call began or a file holding the complete text
\* of the call, and it is the former until the call returns success.
C3_ReaderSeesOldOrNew ==
    result.op \in {"to_file", "to_file:running"} =>
        /\ target \in {prior, File(buf)}
        /\ (pc # "idle" \/ ~result.success) => target = prior
        /\ (ToFileReturned /\ result.success) => target = File(buf)

\* C3 witness: half of a text is written while the old file is in place.
C3_Witness ==
    /\ pc = "write"
    /\ written > 0 /\ written < Len(buf)
    /\ temp = File(SubSeq(buf, 1, written))
    /\ target = File(OldContent)

\* The destroy-notifier calls made for registration k.
CleanupCalls(k) == {j \in 1..Len(destroy_log) : destroy_log[j].reg = k}

\* The entries of a stream list whose kind and codec the grouping knows.
KnownEntries(astreams) ==
    {i \in 1..Len(astreams) : StreamDashCodec(astreams[i]) # DASH_CODEC_UNKNOWN}

\* The entries the adaptations of a pass hold.
GroupedEntries(adaptations) ==
    UNION {{adaptations[g].adaptive_streams[m] :
               m \in 1..Len(adaptations[g].adaptive_streams)} :
           g \in 1..Len(adaptations)}

\* C4: every notifier call is made by the registration that was the latest
\* one at that moment, with that registration's notifier on that
\* registration's user data, while self still held that registration (so
\* before the next one was installed); a replaced registration with a
\* notifier has had it called; the generator's three fields are those of
\* the latest registration (one registration at most), or cleared by
\* dispose; a generation calls only the filter of the latest registration,
\* once per stream, and with the filter cleared groups every stream of a
\* known kind and codec.
C4_ReplaceReleasesPrevious ==
    /\ \A j \in 1..Len(destroy_log) :
          LET e == destroy_log[j]
          IN  /\ e.reg \in 1..Len(regs)
              /\ regs[e.reg].destroy # NOFUNC
              /\ e.notify = regs[e.reg].destroy
              /\ e.data = regs[e.reg].user_data
              /\ e.seen_func = regs[e.reg].filter
              /\ e.seen_data = regs[e.reg].user_data
    /\ \A k \in 1..(Len(regs) - 1) :
          regs[k].destroy # NOFUNC => CleanupCalls(k) # {}
    /\ IF Len(regs) = 0
       THEN filter_func = NOFUNC /\ filter_destroy = NOFUNC /\ filter_data = NULL
       ELSE LET r == regs[Len(regs)]
            IN  /\ filter_data = r.user_data
                /\ filter_func \in {r.filter, NOFUNC}
                /\ filter_destroy \in {r.destroy, NOFUNC}
                /\ (gstate = "alive" /\ ndispose = r.at_dispose) =>
                       (filter_func = r.filter /\ filter_destroy = r.destroy)
    /\ dump.valid =>
          /\ \A c \in 1..Len(dump.calls) :
                /\ dump.at_reg >= 1
                /\ dump.calls[c].func = regs[dump.at_reg].filter
                /\ dump.calls[c].data = regs[dump.at_reg].user_data
                /\ dump.calls[c].entry = c
          /\ (/\ dump.at_reg >= 1
              /\ regs[dump.at_reg].filter # NOFUNC
              /\ dump.at_dispose = regs[dump.at_reg].at_dispose) =>
                 Len(dump.calls) = Len(dump.astreams)
          /\ (dump.at_reg >= 1 /\ regs[dump.at_reg].filter = NOFUNC) =>
                 /\ dump.calls = <<>>
                 /\ GroupedEntries(dump.adaptations) = KnownEntries(dump.astreams)

\* C4 witness: a registration with a notifier was replaced by one with
\* another filter, its notifier has run, and a generation after that has
\* called the new filter.
C4_Witness ==
    /\ Len(regs) = 2
    /\ regs[1].destroy # NOFUNC
    /\ regs[1].filter # regs[2].filter
    /\ regs[1].user_data # regs[2].user_data
    /\ CleanupCalls(1) # {}
    /\ dump.valid /\ dump.at_reg = 2 /\ dump.calls # <<>>

\* Registration k is the one the generator holds: the latest, with no
\* dispose run since it was accepted.
StillRegistered(k) ==
    /\ k = Len(regs)
    /\ gstate = "alive"
    /\ ndispose = regs[k].at_dispose

\* C5: the notifier of an accepted registration is called exactly once, when
\* the registration is replaced or, if it is still the registered one, when
\* dispose runs (alone or in the last unref), and not before; however often
\* dispose runs it is not called again. A registration without a notifier
\* gets no call.
C5_CleanupExactlyOnce ==
    \A k \in 1..Len(regs) :
        LET n == Cardinality(CleanupCalls(k))
        IN  IF regs[k].destroy = NOFUNC
            THEN n = 0
            ELSE IF StillRegistered(k) THEN n = 0 ELSE n = 1

\* C5 witness: two registrations with notifiers; the first was replaced, the
\* second released by a dispose run, and dispose then ran again in the last
\* unref: two notifier calls in all.
C5_Witness ==
    /\ gstate = "finalized"
    /\ ndispose >= 1
    /\ Len(regs) = 2
    /\ regs[1].destroy # NOFUNC /\ regs[2].destroy # NOFUNC
    /\ regs[2].at_dispose = 0
    /\ Len(destroy_log) = 2

\* The references on media info i that are accounted for: the caller's own
\* and the generator's.
HeldReferences(i) ==
    (IF caller_ref[i] THEN 1 ELSE 0) + (IF media_info = i THEN 1 ELSE 0)

\* C6 (as claimed): while the generator lives, the media info it refers to
\* has not been finalized and carries exactly one reference of the
\* generator's, and no other media info carries one; after teardown the
\* generator's reference is gone and nothing was released twice.
C6_HoldsOneReference ==
    /\ gstate = "alive" =>
          /\ media_info # NULL => ~freed[media_info]
          /\ \A i \in InfoIds : refcount[i] = HeldReferences(i)
    /\ gstate = "finalized" =>
          \A i \in InfoIds : refcount[i] = (IF caller_ref[i] THEN 1 ELSE 0)
    /\ gstate # "crashed"

\* The streams, lists and durations the emitted text is examined on: every
\* list of up to MaxStreams of four streams with a duration of 125 s, and
\* one stream with every short duration, 125 and G_MAXUINT.
EmitStreams == {S_avc720, S_bare, S_wide, S_tall}
Durations == (0..MaxDuration) \cup {125, G_MAXUINT}
EmitInfos ==
    {[astreams |-> l, duration |-> 125] : l \in SeqsUpTo(EmitStreams, MaxStreams)}
    \cup {[astreams |-> <<S_avc720>>, duration |-> d] : d \in Durations}

\* The new generator after set_media_info (self, info 1), no filter.
InitEmit ==
    /\ pretty = FALSE
    /\ indent = 2
    /\ media_info = 1
    /\ filter_func = NOFUNC
    /\ filter_data = NULL
    /\ filter_destroy = NOFUNC
    /\ gstate = "alive"
    /\ \E e \in EmitInfos :
          infos = [i \in InfoIds |->
                     IF i = 1 THEN e ELSE [astreams |-> <<>>, duration |-> 0]]
    /\ refcount = [i \in InfoIds |-> IF i = 1 THEN 2 ELSE 1]
    /\ caller_ref = [i \in InfoIds |-> TRUE]
    /\ freed = [i \in InfoIds |-> FALSE]
    /\ regs = <<>>
    /\ destroy_log = <<>>
    /\ nsets = 1 /\ ngens = MaxGens - 1 /\ ndispose = 0
    /\ result = NoResult
    /\ dump = NoDump
    /\ target = Absent
    /\ temp = Absent
    /\ pc = "idle"
    /\ buf = <<>>
    /\ written = 0
    /\ prior = Absent

\* Configuration, then one generation.
NextEmit ==
    \/ \E b \in BOOLEAN : set_pretty(b)
    \/ \E n \in 0..MaxIndent : set_indent(n)
    \/ gtuber_manifest_generator_to_data

SpecEmit == InitEmit /\ [][NextEmit]_vars

\* The widths and heights the pixel aspect ratio is examined on: the small
\* ones, common resolutions, and the guint values around 2^31 and at the top.
ParValues ==
    (0..MaxDim) \cup {720, 1080, 1280, 1920, 2147483647, (-2147483647) - 1, G_MAXUINT}

\* The new generator after set_media_info (self, info 1), info 1 holding one
\* video stream of some width and height.
InitPar ==
    /\ pretty = FALSE
    /\ indent = 2
    /\ media_info = 1
    /\ filter_func = NOFUNC
    /\ filter_data = NULL
    /\ filter_destroy = NOFUNC
    /\ gstate = "alive"
    /\ \E w \in ParValues, h \in ParValues :
          infos = [i \in InfoIds |->
                     IF i = 1
                     THEN [astreams |-> <<Stream(1, VIDEO_MP4, C_avc1, NULLSTR,
                                                 w, h, 0, FALSE)>>,
                           duration |-> 125]
                     ELSE [astreams |-> <<>>, duration |-> 0]]
    /\ refcount = [i \in InfoIds |-> IF i = 1 THEN 2 ELSE 1]
    /\ caller_ref = [i \in InfoIds |-> TRUE]
    /\ freed = [i \in InfoIds |-> FALSE]
    /\ regs = <<>>
    /\ destroy_log = <<>>
    /\ nsets = 1 /\ ngens = MaxGens - 1 /\ ndispose = 0
    /\ result = NoResult
    /\ dump = NoDump
    /\ target = Absent
    /\ temp = Absent
    /\ pc = "idle"
    /\ buf = <<>>
    /\ written = 0
    /\ prior = Absent

NextPar == gtuber_manifest_generator_to_data

SpecPar == InitPar /\ [][NextPar]_vars

(* ------------------------------------------------------------------ *)
(* Claims about one generation: what qualifies, stated from the         *)
(* description of the grouping, not from its code                       *)
(* ------------------------------------------------------------------ *)
VideoKinds == {VIDEO_MP4, VIDEO_WEBM}
AudioKinds == {AUDIO_MP4, AUDIO_WEBM}
VideoPrefixes == {<<"a", "v", "c">>, <<"v", "p", "9">>, <<"h", "e", "v">>,
                  <<"a", "v", "0", "1">>}
AudioPrefixes == {<<"m", "p", "4", "a">>, <<"o", "p", "u", "s">>}

\* The recognized prefixes the relevant codec string of a stream starts with.
MatchedPrefixes(stream) ==
    IF stream.mime \in VideoKinds
    THEN {p \in VideoPrefixes :
             stream.vcodec # NULLSTR /\ g_str_has_prefix(stream.vcodec, p)}
    ELSE IF stream.mime \in AudioKinds
    THEN {p \in AudioPrefixes :
             stream.acodec # NULLSTR /\ g_str_has_prefix(stream.acodec, p)}
    ELSE {}

\* The codec strings the classifiers are compared on.
CodecStrings ==
    {NULLSTR, C_avc1, C_vp9, C_vp8, C_hev1, C_av01, C_av1, C_mp4a, C_opus,
     C_AVC, C_empty}

\* Entry i of the last pass qualifies: the filter of the pass accepts it (or
\* there is none), its kind is one of the four and its codec is recognized.
Qualifies(i) ==
    /\ \/ dump.filter_func = NOFUNC
       \/ CallFilter(dump.filter_func, dump.filter_data, dump.astreams[i])
    /\ MatchedPrefixes(dump.astreams[i]) # {}

QualifyingEntries == {i \in 1..Len(dump.astreams) : Qualifies(i)}

\* The grouping key of an entry: (container+kind, codec class).
KeyOf(i) == <<dump.astreams[i].mime, MatchedPrefixes(dump.astreams[i])>>

\* The groups that hold entry i, and how often group g holds it.
GroupsOf(i) ==
    {g \in 1..Len(dump.adaptations) :
        \E m \in 1..Len(dump.adaptations[g].adaptive_streams) :
            dump.adaptations[g].adaptive_streams[m] = i}
TimesIn(g, i) ==
    Cardinality({m \in 1..Len(dump.adaptations[g].adaptive_streams) :
                    dump.adaptations[g].adaptive_streams[m] = i})

\* The fragments of a text.
Range(text) == {text[j] : j \in 1..Len(text)}

\* The k-th smallest element of a set of numbers.
Nth(P, k) == CHOOSE j \in P : Cardinality({x \in P : x < j}) = k - 1

\* The fragments at offset `off` after each fragment `tag` of a text, in order.
After(text, tag, off) ==
    LET P == {j \in 1..Len(text) : text[j] = tag}
    IN  [k \in 1..Cardinality(P) |-> text[Nth(P, k) + off]]

\* The id attributes of the Representation elements of a text, in order.
EmittedIds(text) == After(text, "<Representation", 1)

IdAttr(itag) == " id=\"" \o ToString(itag) \o "\""

\* A generation has run and its call has returned with a text (the pass it
\* made is kept in dump until the next generation).
Generated == dump.valid /\ pc = "idle" /\ result.op # "none" /\ ~result.null

\* C7: in one generation every entry of the stream list that qualifies is in
\* exactly one adaptation, once, and every other entry is in none; the text
\* holds as many Representation elements as entries qualify, each itag as
\* often as qualifying entries carry it; every maximum of a group is 0 or
\* the value of one of its members. A codec string has a codec class
\* exactly if it starts with one of the recognized prefixes of its kind.
C7_EachEntryInOneGroupOrNone ==
    Generated =>
        /\ \A codec \in CodecStrings :
              /\ get_dash_video_codec(codec) # DASH_CODEC_UNKNOWN <=>
                    /\ codec # NULLSTR
                    /\ \E p \in VideoPrefixes : g_str_has_prefix(codec, p)
              /\ get_dash_audio_codec(codec) # DASH_CODEC_UNKNOWN <=>
                    /\ codec # NULLSTR
                    /\ \E p \in AudioPrefixes : g_str_has_prefix(codec, p)
        /\ \A i \in 1..Len(dump.astreams) :
              IF Qualifies(i)
              THEN /\ Cardinality(GroupsOf(i)) = 1
                   /\ \A g \in GroupsOf(i) : TimesIn(g, i) = 1
              ELSE GroupsOf(i) = {}
        /\ LET ids == EmittedIds(dump.string)
           IN  /\ Len(ids) = Cardinality(QualifyingEntries)
               /\ \A i \in 1..Len(dump.astreams) :
                     LET a == IdAttr(dump.astreams[i].itag)
                     IN  Cardinality({k \in 1..Len(ids) : ids[k] = a}) =
                         Cardinality({j \in QualifyingEntries :
                                         dump.astreams[j].itag = dump.astreams[i].itag})
        /\ \A g \in 1..Len(dump.adaptations) :
              LET d == dump.adaptations[g]
                  M == {dump.astreams[d.adaptive_streams[m]] :
                           m \in 1..Len(d.adaptive_streams)}
              IN  /\ d.max_width \in {0} \cup {s.width : s \in M}
                  /\ d.max_height \in {0} \cup {s.height : s \in M}
                  /\ d.max_fps \in {0} \cup {s.fps : s \in M}

\* C7 witness: a list with an entry the filter rejects, an entry of an
\* unrecognized codec and an entry that is grouped and emitted.
C7_Witness ==
    /\ Generated
    /\ dump.filter_func = "min_height"
    /\ dump.astreams = <<S_avc0, S_av1, S_avc720>>
    /\ QualifyingEntries = {3}
    /\ EmittedIds(dump.string) = <<IdAttr(22)>>

\* The entries of group g, in the order the group holds them.
Members(g) == dump.adaptations[g].adaptive_streams

\* The ids of the members of groups 1..n, group after group.
RECURSIVE GroupedIds(_)
GroupedIds(n) ==
    IF n = 0
    THEN <<>>
    ELSE GroupedIds(n - 1)
         \o [m \in 1..Len(Members(n)) |-> IdAttr(dump.astreams[Members(n)[m]].itag)]

\* C8: two qualifying entries are in the same group exactly if their keys
\* (container+kind, codec class) are equal; a group that comes earlier has
\* its first member earlier in the list; the members of a group are in list
\* order; the AdaptationSet elements of the text are the groups in order
\* and the Representation elements the members, group after group.
C8_GroupingByKeyInOrder ==
    Generated =>
        /\ \A i, j \in QualifyingEntries :
              (KeyOf(i) = KeyOf(j)) <=> (GroupsOf(i) = GroupsOf(j))
        /\ \A g \in 1..Len(dump.adaptations) :
              /\ Len(Members(g)) >= 1
              /\ \A m \in 1..(Len(Members(g)) - 1) : Members(g)[m] < Members(g)[m + 1]
              /\ dump.adaptations[g].mime_type = dump.astreams[Members(g)[1]].mime
        /\ \A g, h \in 1..Len(dump.adaptations) :
              g < h => Members(g)[1] < Members(h)[1]
        /\ After(dump.string, "<AdaptationSet", 2) =
              [g \in 1..Len(dump.adaptations) |->
                  " mimeType=\"" \o dump.adaptations[g].mime_type \o "\""]
        /\ EmittedIds(dump.string) = GroupedIds(Len(dump.adaptations))

\* C8 witness: two entries of one key with an entry of another key between
\* them: two groups, the first holding the first and the third entry.
C8_Witness ==
    /\ Generated
    /\ dump.astreams = <<S_avc720, S_av01, S_avc360>>
    /\ dump.filter_func = NOFUNC
    /\ Len(dump.adaptations) = 2
    /\ Members(1) = <<1, 3>> /\ Members(2) = <<2>>
    /\ EmittedIds(dump.string) = <<IdAttr(22), IdAttr(18), IdAttr(399)>>

\* The largest of a set of numbers, 0 for the empty set.
MaxOf(S) == IF S = {} THEN 0 ELSE CHOOSE x \in S : \A y \in S : y <= x

\* The qualifying entries whose key is that of group g.
KeyMembers(g) ==
    {i \in QualifyingEntries :
        /\ dump.astreams[i].mime = dump.adaptations[g].mime_type
        /\ StreamDashCodec(dump.astreams[i]) = dump.adaptations[g].dash_codec}

\* The maxWidth, maxHeight, par and maxFrameRate attributes of the video
\* AdaptationSet elements of a text, in order.
EmittedMaxima(text) ==
    LET P == {j \in 1..Len(text) :
                 text[j] = "<AdaptationSet" /\ text[j + 1] = " contentType=\"video\""}
    IN  [k \in 1..Cardinality(P) |->
            <<text[Nth(P, k) + 5], text[Nth(P, k) + 6], text[Nth(P, k) + 8]>>]

\* The video groups of the last pass, in order.
VideoGroups ==
    SelectSeq([g \in 1..Len(dump.adaptations) |-> g],
              LAMBDA g : dump.adaptations[g].mime_type \in VideoKinds)

\* C9: the maxima of a group are the largest width, height and frame rate
\* among the non-zero values of the qualifying entries of its key, 0 when
\* there is none, and the video AdaptationSet elements carry them.
C9_MaximaOverMembers ==
    Generated =>
        /\ \A g \in 1..Len(dump.adaptations) :
              LET d == dump.adaptations[g]
                  M == {dump.astreams[i] : i \in KeyMembers(g)}
              IN  /\ d.max_width = MaxOf({s.width : s \in M} \ {0})
                  /\ d.max_height = MaxOf({s.height : s \in M} \ {0})
                  /\ d.max_fps = MaxOf({s.fps : s \in M} \ {0})
        /\ EmittedMaxima(dump.string) =
              [k \in 1..Len(VideoGroups) |->
                  LET M == {dump.astreams[i] : i \in KeyMembers(VideoGroups[k])}
                  IN  <<" maxWidth=\"" \o ToString(MaxOf({s.width : s \in M})) \o "\"",
                        " maxHeight=\"" \o ToString(MaxOf({s.height : s \in M})) \o "\"",
                        " maxFrameRate=\"" \o ToString(MaxOf({s.fps : s \in M})) \o "\"">>]

\* C9 witness: a group of heights 0, 720 and 360, whose maxHeight is 720.
C9_Witness ==
    /\ Generated
    /\ dump.astreams = <<S_avc0, S_avc720, S_avc360>>
    /\ dump.filter_func = NOFUNC
    /\ Len(dump.adaptations) = 1
    /\ dump.adaptations[1].max_height = 720
    /\ EmittedMaxima(dump.string) =
          <<<<" maxWidth=\"1280\"", " maxHeight=\"720\"", " maxFrameRate=\"30\"">>>>

XmlDeclaration == <<"<?xml", " version=\"1.0\"", " encoding=\"UTF-8\"", "?>">>

StartsWithDeclaration(text) ==
    Len(text) >= 4 /\ SubSeq(text, 1, 4) = XmlDeclaration

\* C10: with a media info set, a generation over a list of which no entry
\* qualifies returns the empty text of length 0, and to_file, when no step
\* of the write fails, returns TRUE and leaves a file of length 0; when an
\* entry qualifies the text is not empty and starts with the XML
\* declaration.
C10_EmptyIffNoneQualifies ==
    /\ (Generated /\ result.op = "to_data") =>
          IF QualifyingEntries = {}
          THEN result.text = <<>> /\ result.len = 0
          ELSE result.len > 0 /\ StartsWithDeclaration(result.text)
    /\ (Generated /\ ToFileReturned /\ result.step = "none") =>
          /\ result.success /\ result.error = "none"
          /\ target.exists
          /\ IF QualifyingEntries = {}
             THEN target.content = <<>> /\ GStringLen(target.content) = 0
             ELSE GStringLen(target.content) > 0
                  /\ StartsWithDeclaration(target.content)

\* C10 witness: to_file over a list of unrecognized streams only, without a
\* filter, has replaced the old file by an empty one.
C10_Witness ==
    /\ Generated /\ ToFileReturned /\ result.success
    /\ dump.filter_func = NOFUNC
    /\ dump.astreams = <<S_unkmime, S_av1, S_novideo>>
    /\ prior = File(OldContent)
    /\ target = File(<<>>)

(* ------------------------------------------------------------------ *)
(* Claims about the layout of the text                                  *)
(* ------------------------------------------------------------------ *)
\* The fragments that open an element or stand alone on a line, and the
\* ones that close an element on a line of their own.
OpeningTags ==
    {"<?xml", "<MPD", "<Period>", "<AdaptationSet", "<Representation",
     "<BaseURL>", "<SegmentBase", "<Initialization"}
ClosingTags ==
    {"</Period>", "</AdaptationSet>", "</Representation>", "</SegmentBase>", "</MPD>"}

\* The nesting depth of the element a tag belongs to.
DepthOf(tag) ==
    CASE tag \in {"<?xml", "<MPD", "</MPD>"} -> 0
      [] tag \in {"<Period>", "</Period>"} -> 1
      [] tag \in {"<AdaptationSet", "</AdaptationSet>"} -> 2
      [] tag \in {"<Representation", "</Representation>"} -> 3
      [] tag \in {"<BaseURL>", "<SegmentBase", "</SegmentBase>"} -> 4
      [] tag = "<Initialization" -> 5

\* The fragment at p is on a line that begins with exactly k spaces.
BeginsLineAfter(text, p, k) ==
    /\ p > k
    /\ \A j \in (p - k)..(p - 1) : text[j] = " "
    /\ p - k = 1 \/ text[p - k - 1] = "\n"

\* The line of the fragment at p ends in a newline before the next tag line.
LineEnds(text, p) ==
    \E q \in (p + 1)..Len(text) :
        /\ text[q] = "\n"
        /\ \A j \in (p + 1)..(q - 1) :
              text[j] \notin OpeningTags \cup ClosingTags \cup {"\n", " "}

\* C11: in a text generated with pretty-print on and indent width N, every
\* line that opens an element or holds a whole one begins with exactly
\* N * depth spaces (MPD 0, Period 1, AdaptationSet 2, Representation 3,
\* BaseURL and SegmentBase 4, Initialization 5) and ends in a newline; the
\* closing lines are indented the same way.
C11_IndentByDepth ==
    (Generated /\ dump.pretty) =>
        \A p \in 1..Len(dump.string) :
            LET t == dump.string[p]
            IN  /\ t \in OpeningTags =>
                      /\ BeginsLineAfter(dump.string, p, dump.indent * DepthOf(t))
                      /\ LineEnds(dump.string, p)
                /\ t \in ClosingTags =>
                      BeginsLineAfter(dump.string, p, dump.indent * DepthOf(t))

\* C11 witness: with indent width 4 an Initialization line begins with 20
\* spaces and a Representation line with 12.
C11_Witness ==
    /\ Generated /\ dump.pretty /\ dump.indent = 4
    /\ \E p \in 1..Len(dump.string) :
          /\ dump.string[p] = "<Initialization"
          /\ BeginsLineAfter(dump.string, p, 20)
    /\ \E p \in 1..Len(dump.string) :
          /\ dump.string[p] = "<Representation"
          /\ BeginsLineAfter(dump.string, p, 12)
          /\ LineEnds(dump.string, p)

\* The fragment at j is a space of the run of spaces its line begins with.
IsIndentation(text, j, widest) ==
    /\ text[j] = " "
    /\ \E b \in (IF j > widest THEN j - widest ELSE 1)..j :
          /\ b = 1 \/ text[b - 1] = "\n"
          /\ \A k \in b..j : text[k] = " "

\* A text without its newlines and without the spaces its lines begin with.
StripLayout(text, widest) ==
    LET kept == SelectSeq([j \in 1..Len(text) |-> j],
                          LAMBDA j : /\ text[j] # "\n"
                                     /\ ~IsIndentation(text, j, widest))
    IN  [k \in 1..Len(kept) |-> text[kept[k]]]

\* The text of the last pass's input under another layout configuration.
TextOf(is_pretty, width) ==
    dump_data([pretty |-> is_pretty, indent |-> width,
               filter_func |-> dump.filter_func, filter_data |-> dump.filter_data],
              [astreams |-> dump.astreams, duration |-> dump.duration]).string

\* A generation has returned and the configuration is still the one it read.
Configured == Generated /\ pretty = dump.pretty /\ indent = dump.indent

\* C12: a text generated with pretty-print off holds no newline and no
\* indentation space, and a text generated with pretty-print on, of any
\* indent width, is the text of the same media info and filter with
\* pretty-print off once its newlines and the spaces its lines begin with
\* are taken out: the tags, attributes and contents are the same, in the
\* same order.
C12_PrettyOnlyAddsLayout ==
    Configured =>
        IF dump.pretty
        THEN StripLayout(dump.string, 5 * dump.indent) = TextOf(FALSE, dump.indent)
        ELSE /\ \A j \in 1..Len(dump.string) : dump.string[j] \notin {"\n", " "}
             /\ \A n \in 0..MaxIndent :
                   \A t \in {TextOf(TRUE, n)} : StripLayout(t, 5 * n) = dump.string

\* C12 witness: a pretty-printed text of three streams, longer than the
\* plain one by its layout only.
C12_Witness ==
    /\ Configured /\ dump.pretty /\ dump.indent = 4
    /\ dump.astreams = <<S_avc720, S_bare, S_wide>>
    /\ Len(dump.string) > Len(TextOf(FALSE, 4))
    /\ StripLayout(dump.string, 20) = TextOf(FALSE, 4)

(* ------------------------------------------------------------------ *)
(* Claims about the attributes of the text                              *)
(* ------------------------------------------------------------------ *)
\* "PT{d}S" for a duration of d seconds, d one of the durations drawn.
DurationText(d) ==
    "PT" \o (IF d = G_MAXUINT THEN "4294967295" ELSE ToString(d)) \o "S"

\* C13: every text that is not empty carries, as the fifth and sixth
\* attribute of its MPD element, mediaPresentationDuration="PT{d}S" and
\* minBufferTime="PT{min(2, d)}S" for the duration d of the media info:
\* PT125S and PT2S for 125, PT1S twice for 1, PT0S twice for 0.
C13_DurationAttributes ==
    (Generated /\ dump.string # <<>>) =>
        LET d == dump.duration
            least == IF d \in {0, 1} THEN d ELSE 2
        IN  /\ After(dump.string, "<MPD", 5) =
                  <<" mediaPresentationDuration=\"" \o DurationText(d) \o "\"">>
            /\ After(dump.string, "<MPD", 6) =
                  <<" minBufferTime=\"" \o DurationText(least) \o "\"">>
            /\ d = 125 =>
                  /\ " mediaPresentationDuration=\"PT125S\"" \in Range(dump.string)
                  /\ " minBufferTime=\"PT2S\"" \in Range(dump.string)
            /\ d = 0 =>
                  /\ " mediaPresentationDuration=\"PT0S\"" \in Range(dump.string)
                  /\ " minBufferTime=\"PT0S\"" \in Range(dump.string)

\* C13 witness: a duration of one second, shorter than the two-second buffer.
C13_Witness ==
    /\ Generated /\ dump.duration = 1
    /\ " mediaPresentationDuration=\"PT1S\"" \in Range(dump.string)
    /\ " minBufferTime=\"PT1S\"" \in Range(dump.string)

\* The greatest common divisor by the Euclidean recursion, gcd(a, 0) = a.
RECURSIVE Euclid(_, _)
Euclid(a, b) == IF b = 0 THEN a ELSE Euclid(b, UMod(a, b))

\* The par the description gives for a width and a height.
ParOf(w, h) ==
    IF w = 0 \/ h = 0
    THEN "1:1"
    ELSE FmtU(UDiv(w, Euclid(w, h))) \o ":" \o FmtU(UDiv(h, Euclid(w, h)))

\* C14: for every unsigned width w and height h of the one stream of a
\* video adaptation, the par attribute is "1:1" if either is 0 and
\* otherwise "{w/g}:{h/g}" with g the Euclidean gcd; g divides both, the
\* two quotients are coprime, and 1920x1080 and 1280x720 both give "16:9".
C14_ParIsReducedRatio ==
    (Generated /\ Len(dump.astreams) = 1) =>
        LET w == dump.astreams[1].width
            h == dump.astreams[1].height
            g == Euclid(w, h)
        IN  /\ After(dump.string, "<AdaptationSet", 7) =
                  <<" par=\"" \o ParOf(w, h) \o "\"">>
            /\ (w # 0 /\ h # 0) =>
                  /\ UMod(w, g) = 0 /\ UMod(h, g) = 0
                  /\ Euclid(UDiv(w, g), UDiv(h, g)) = 1
            /\ <<w, h>> \in {<<1920, 1080>>, <<1280, 720>>} =>
                  " par=\"16:9\"" \in Range(dump.string)

\* An attribute as it stands in the text.
Attr(key, value) == <<" " \o key \o "=\"" \o value \o "\"">>

\* The Representation element the description gives for a stream.
RepresentationOf(s) ==
    <<"<Representation">>
    \o Attr("id", ToString(s.itag))
    \o Attr("codecs",
            IF s.vcodec # NULLSTR /\ s.acodec # NULLSTR
            THEN CStr(s.vcodec) \o ", " \o CStr(s.acodec)
            ELSE IF s.vcodec # NULLSTR THEN CStr(s.vcodec) ELSE CStr(s.acodec))
    \o Attr("bandwidth", ToString(s.bitrate))
    \o (IF s.width # 0 THEN Attr("width", ToString(s.width)) ELSE <<>>)
    \o (IF s.height # 0 THEN Attr("height", ToString(s.height)) ELSE <<>>)
    \o (IF s.width # 0 /\ s.height # 0 THEN Attr("sar", "1:1") ELSE <<>>)
    \o (IF s.fps # 0 THEN Attr("frameRate", ToString(s.fps)) ELSE <<>>)
    \o <<">", "<BaseURL>", s.uri, "</BaseURL>", "<SegmentBase">>
    \o (IF s.has_index
        THEN Attr("indexRange",
                  ToString(s.index_start) \o "-" \o ToString(s.index_end))
        ELSE <<>>)
    \o Attr("indexRangeExact", "true")
    \o <<">", "<Initialization">>
    \o (IF s.has_init
        THEN Attr("range", ToString(s.init_start) \o "-" \o ToString(s.init_end))
        ELSE <<>>)
    \o <<"/>", "</SegmentBase>", "</Representation>">>

\* The entries of groups 1..n, group after group.
RECURSIVE EmittedEntries(_)
EmittedEntries(n) ==
    IF n = 0 THEN <<>> ELSE EmittedEntries(n - 1) \o Members(n)

\* The k-th Representation element of a text without layout, from its
\* opening to its closing tag.
RepresentationAt(text, k) ==
    SubSeq(text,
           Nth({j \in 1..Len(text) : text[j] = "<Representation"}, k),
           Nth({j \in 1..Len(text) : text[j] = "</Representation>"}, k))

\* C15: every Representation of the text is, layout aside, the element of
\* its stream: id = itag, codecs = the video codec, the audio codec or
\* "{video}, {audio}", bandwidth = bitrate, width and height if non-zero,
\* sar="1:1" if both are, frameRate if non-zero, then the BaseURL with the
\* URI and the SegmentBase, with indexRange if the stream has an index
\* range, around the Initialization, with range if it has an init range.
C15_RepresentationAttributes ==
    Configured =>
        \A text \in {IF dump.pretty
                     THEN StripLayout(dump.string, 5 * dump.indent)
                     ELSE dump.string} :
            LET entries == EmittedEntries(Len(dump.adaptations))
            IN  /\ Len(EmittedIds(text)) = Len(entries)
                /\ \A k \in 1..Len(entries) :
                      RepresentationAt(text, k) =
                          RepresentationOf(dump.astreams[entries[k]])

\* C15 witness: a stream of width 640, no height, 24 frames a second, a
\* video codec only and an index range only, next to one with everything.
C15_Witness ==
    /\ Configured
    /\ dump.astreams = <<S_wide, S_avc720>>
    /\ RepresentationAt(dump.string, 1) =
          <<"<Representation", " id=\"301\"", " codecs=\"vp9\"",
            " bandwidth=\"301000\"", " width=\"640\"", " frameRate=\"24\"", ">",
            "<BaseURL>", "http://h/301", "</BaseURL>",
            "<SegmentBase", " indexRange=\"100-199\"", " indexRangeExact=\"true\"",
            ">", "<Initialization", "/>", "</SegmentBase>", "</Representation>">>
    /\ " codecs=\"avc1, mp4a\"" \in Range(dump.string)
    /\ " sar=\"1:1\"" \in Range(dump.string)

(* ------------------------------------------------------------------ *)
(* Claims about to_file without a media info                            *)
(* ------------------------------------------------------------------ *)
\* C16: a to_file call made while no media info is set fails before any
\* step of the write: it never opens the temporary file, never renames it,
\* and the file at the target path, present or not, stays as it was.
C16_NoWriteWithoutMediaInfo ==
    (result.null /\ result.op \in {"to_file", "to_file:running"}) =>
        /\ pc = "idle"
        /\ temp = Absent
        /\ target = prior
        /\ ~result.success

====
